---- MODULE Spec2Model ----
(***************************************************************************)
(* Lane-line consolidation and smoothing of project1.ipynb:                *)
(* HistoricalLaneDataTracker, LineProcessor and draw_lines.                *)
(*                                                                         *)
(* Numbers.  The program computes in Python floats.  Here a number is an   *)
(* exact rational <<n, d>> in lowest terms with d > 0, so a sum, product   *)
(* or quotient is the exact value the float operation approximates;        *)
(* statistics.mean sums exactly and divides once, which is what mean       *)
(* does.  math.sqrt is the floor of the square root on a grid of           *)
(* 1/LenScale.  int() truncates toward zero (Trunc).                       *)
(*                                                                         *)
(* An exception that leaves a function is a value: the field raised of     *)
(* the function's result names it, "none" when the function returns.       *)
(***************************************************************************)
EXTENDS Integers, Sequences, FiniteSets, TLC

VARIABLES
    global_left_lane_slope_holder,   \* HistoricalLaneDataTracker of the left lane
    global_right_lane_slope_holder,  \* HistoricalLaneDataTracker of the right lane
    left_line,                       \* draw_lines: left_line of the last call, NoLine if none
    right_line,                      \* draw_lines: right_line of the last call, NoLine if none
    raised,                          \* exception that left the last call, "none" if it returned
    lines,                           \* the segments handed to the last draw_lines call
    assigned,                        \* add_line calls of the last draw_lines call, in order
    called,                          \* lanes whose get_mean_line ran in the last draw_lines call
    pushed,                          \* per lane: every triple handed to update, in order
    session,                         \* [no, frames, halted, total]: the run of process_image calls
    last_op,                         \* the operation that produced this state
    proc,                            \* the LineProcessor driven call by call (SpecAPI)
    api                              \* [prev, last, prev_result, result, calls] (SpecAPI)

vars == <<global_left_lane_slope_holder, global_right_lane_slope_holder, left_line,
          right_line, raised, lines, assigned, called, pushed, session, last_op,
          proc, api>>

-----------------------------------------------------------------------------
(* Bounds of the exploration *)

\* resolution of the modelled square root: lengths are multiples of 1/LenScale
LenScale == 10
\* frames processed in one run of the notebook
MaxFrames == 45
\* only the first VariedFrames frames of a run vary freely (and only among
\* them a new session starts); every later frame repeats its predecessor
VariedFrames == 2
\* processing sessions (images or videos run through process_image)
MaxSessions == 2
\* calls made on LineProcessor objects in SpecAPI
MaxCalls == 6

-----------------------------------------------------------------------------
(* Exact rational arithmetic *)

Abs(n) == IF n < 0 THEN -n ELSE n

RECURSIVE GCD(_, _)
GCD(a, b) == IF b = 0 THEN a ELSE GCD(b, a % b)

Rat(n, d) ==
    LET g == GCD(Abs(n), Abs(d))
        s == IF d < 0 THEN -1 ELSE 1
    IN  <<(s * n) \div g, (s * d) \div g>>

Int2Rat(i) == <<i, 1>>
Zero == <<0, 1>>
\* sums over the least common denominator, products reduced crosswise first;
\* the operands range over one-element sets, so each is computed once, before
\* the arithmetic on it, as Python evaluates the operands of an operator
RAdd(a, b) ==
    CHOOSE sum \in
        { LET g == GCD(x[2], y[2])
          IN  Rat(x[1] * (y[2] \div g) + y[1] * (x[2] \div g), (x[2] \div g) * y[2])
          : x \in {a}, y \in {b} } : TRUE
RSub(a, b) == RAdd(a, <<-b[1], b[2]>>)
RMul(a, b) ==
    CHOOSE product \in
        { Rat(p[1] * q[1], p[2] * q[2])
          : p \in {Rat(a[1], b[2])}, q \in {Rat(b[1], a[2])} } : TRUE
RDiv(a, b) == RMul(a, Rat(b[2], b[1]))
RNeg(a) == a[1] < 0
RIsZero(a) == a[1] = 0

\* int(): truncation toward zero
Trunc(a) == IF a[1] >= 0 THEN a[1] \div a[2] ELSE -((-a[1]) \div a[2])

\* floor of the square root
ISqrt(n) == CHOOSE r \in 0..n : r * r <= n /\ n < (r + 1) * (r + 1)

\* math.sqrt, on the grid of 1/LenScale
Sqrt(n) == Rat(ISqrt(n * LenScale * LenScale), LenScale)

\* the exact sum of a list, halving it: the sum is exact, so the order in
\* which the terms are added does not change it
RECURSIVE RSum(_)
RSum(s) ==
    IF Len(s) = 0 THEN Zero
    ELSE IF Len(s) = 1 THEN s[1]
    ELSE LET h == Len(s) \div 2
         IN  CHOOSE total \in
                 { RAdd(lo, hi) : lo \in {RSum(SubSeq(s, 1, h))},
                                  hi \in {RSum(SubSeq(s, h + 1, Len(s)))} } : TRUE

-----------------------------------------------------------------------------
(* HistoricalLaneDataTracker *)

number_of_slopes_to_remember == 40

NewTracker == [slopes |-> <<>>, mean_x_values |-> <<>>, mean_y_values |-> <<>>]

\* a plausible slip: the window is never trimmed
update_no_eviction(self, mean_x, mean_y, mean_slope) ==
    [mean_x_values |-> Append(self.mean_x_values, mean_x),
     mean_y_values |-> Append(self.mean_y_values, mean_y),
     slopes        |-> Append(self.slopes, mean_slope)]

\* a plausible slip: pop() instead of pop(0) drops the newest entry
update_evicts_newest(self, mean_x, mean_y, mean_slope) ==
    LET xs == Append(self.mean_x_values, mean_x)
        ys == Append(self.mean_y_values, mean_y)
        ss == Append(self.slopes, mean_slope)
    IN  IF Len(ss) > number_of_slopes_to_remember
        THEN [mean_x_values |-> SubSeq(xs, 1, Len(xs) - 1),
              mean_y_values |-> SubSeq(ys, 1, Len(ys) - 1),
              slopes        |-> SubSeq(ss, 1, Len(ss) - 1)]
        ELSE [mean_x_values |-> xs, mean_y_values |-> ys, slopes |-> ss]

update(self, mean_x, mean_y, mean_slope) ==
    LET xs == Append(self.mean_x_values, mean_x)
        ys == Append(self.mean_y_values, mean_y)
        ss == Append(self.slopes, mean_slope)
    IN  IF Len(ss) > number_of_slopes_to_remember
        THEN [mean_x_values |-> Tail(xs), mean_y_values |-> Tail(ys), slopes |-> Tail(ss)]
        ELSE [mean_x_values |-> xs, mean_y_values |-> ys, slopes |-> ss]

\* statistics.mean: StatisticsError on no data, else the exact sum over the count
mean(data) ==
    IF Len(data) = 0
    THEN [raised |-> "StatisticsError", value |-> Zero]
    ELSE CHOOSE result \in
             { [raised |-> "none", value |-> RDiv(total, Int2Rat(Len(data)))]
               : total \in {RSum(data)} } : TRUE

get_latest_lane_data(self) ==
    LET mx == mean(self.mean_x_values)
        my == mean(self.mean_y_values)
        ms == mean(self.slopes)
    IN  IF mx.raised # "none" THEN [raised |-> mx.raised, value |-> <<Zero, Zero, Zero>>]
        ELSE IF my.raised # "none" THEN [raised |-> my.raised, value |-> <<Zero, Zero, Zero>>]
        ELSE IF ms.raised # "none" THEN [raised |-> ms.raised, value |-> <<Zero, Zero, Zero>>]
        ELSE [raised |-> "none", value |-> <<mx.value, my.value, ms.value>>]

-----------------------------------------------------------------------------
(* LineProcessor *)

NoLine == <<>>

\* LineProcessor(lane_data_tracker); the tracker is named by its lane
NewLineProcessor(lane) ==
    [sum_of_slopes |-> Zero, sum_of_coordinates |-> <<Zero, Zero>>,
     total_length |-> Zero, lane_data_tracker |-> lane]

weighted_mid_point(a, b, weight) == RMul(Rat(a + b, 2), weight)

add_line(self, x1, y1, x2, y2, slope) ==
    CHOOSE result \in
        { [self EXCEPT
              !.total_length = RAdd(@, line_length),
              !.sum_of_slopes = RAdd(@, RMul(slope, line_length)),
              !.sum_of_coordinates =
                  <<RAdd(@[1], weighted_mid_point(x1, x2, line_length)),
                    RAdd(@[2], weighted_mid_point(y1, y2, line_length))>>]
          : line_length \in {Sqrt((y2 - y1) * (y2 - y1) + (x2 - x1) * (x2 - x1))} } : TRUE

\* a division by a zero slope raises (ZeroDivisionError on Python floats; on
\* numpy floats the quotient is inf or nan and int() raises)
find_x2_from_slope(x1, y1, y2, current_slope) ==
    IF RIsZero(current_slope)
    THEN [raised |-> "ZeroDivisionError", value |-> 0]
    ELSE [raised |-> "none",
          value |-> Trunc(RSub(x1, RDiv(RSub(y1, Int2Rat(y2)), current_slope)))]

\* a plausible slip: an empty accumulator pushes a zeroed aggregate
get_mean_line_pushes_zero(self, tracker, bottom_y, top_y) ==
    LET agg == IF ~RIsZero(self.total_length)
               THEN <<RDiv(self.sum_of_coordinates[1], self.total_length),
                      RDiv(self.sum_of_coordinates[2], self.total_length),
                      RDiv(self.sum_of_slopes, self.total_length)>>
               ELSE <<Zero, Zero, Zero>>
        t1 == update(tracker, agg[1], agg[2], agg[3])
    IN  CHOOSE result \in
            { LET bottom_x == find_x2_from_slope(latest.value[1], latest.value[2], bottom_y,
                                                 latest.value[3])
                  top_x == find_x2_from_slope(latest.value[1], latest.value[2], top_y,
                                              latest.value[3])
              IN  IF latest.raised # "none"
                  THEN [tracker |-> t1, updates |-> <<agg>>, raised |-> latest.raised,
                        line |-> NoLine]
                  ELSE IF bottom_x.raised # "none"
                  THEN [tracker |-> t1, updates |-> <<agg>>, raised |-> bottom_x.raised,
                        line |-> NoLine]
                  ELSE [tracker |-> t1, updates |-> <<agg>>, raised |-> "none",
                        line |-> <<bottom_x.value, bottom_y, top_x.value, top_y>>]
              : latest \in {get_latest_lane_data(t1)} } : TRUE

\* get_mean_line on the tracker the processor holds: the tracker afterwards,
\* the update calls made, the exception raised and the line returned
\* (latest ranges over a one-element set: the value get_latest_lane_data
\* returned, computed once)
get_mean_line(self, tracker, bottom_y, top_y) ==
    LET push == ~RIsZero(self.total_length)
        agg == <<RDiv(self.sum_of_coordinates[1], self.total_length),
                 RDiv(self.sum_of_coordinates[2], self.total_length),
                 RDiv(self.sum_of_slopes, self.total_length)>>
        t1 == IF push THEN update(tracker, agg[1], agg[2], agg[3]) ELSE tracker
        ups == IF push THEN <<agg>> ELSE <<>>
    IN  CHOOSE result \in
            { LET bottom_x == find_x2_from_slope(latest.value[1], latest.value[2], bottom_y,
                                                 latest.value[3])
                  top_x == find_x2_from_slope(latest.value[1], latest.value[2], top_y,
                                              latest.value[3])
              IN  IF latest.raised # "none"
                  THEN [tracker |-> t1, updates |-> ups, raised |-> latest.raised,
                        line |-> NoLine]
                  ELSE IF bottom_x.raised # "none"
                  THEN [tracker |-> t1, updates |-> ups, raised |-> bottom_x.raised,
                        line |-> NoLine]
                  ELSE [tracker |-> t1, updates |-> ups, raised |-> "none",
                        line |-> <<bottom_x.value, bottom_y, top_x.value, top_y>>]
              : latest \in {get_latest_lane_data(t1)} } : TRUE

-----------------------------------------------------------------------------
(* draw_lines *)

\* a plausible slip: a vertical segment gets slope 0
slope_vertical_zero(arg_x1, arg_y1, arg_x2, arg_y2) ==
    IF 0 = arg_x2 - arg_x1 THEN Zero ELSE Rat(arg_y2 - arg_y1, arg_x2 - arg_x1)

slope(arg_x1, arg_y1, arg_x2, arg_y2) ==
    IF 0 = arg_x2 - arg_x1 THEN Int2Rat(1) ELSE Rat(arg_y2 - arg_y1, arg_x2 - arg_x1)

\* a plausible slip: <= for <
classify_le(current_slope) == IF current_slope[1] <= 0 THEN "left" ELSE "right"

\* the branch of the loop: the processor a segment is added to
classify(current_slope) == IF RNeg(current_slope) THEN "left" ELSE "right"

\* the loop over lines: both processors and the add_line calls made, in order
RECURSIVE classify_all(_, _, _, _)
classify_all(segs, left, right, trace) ==
    IF segs = <<>>
    THEN [left |-> left, right |-> right, trace |-> trace]
    ELSE LET s == Head(segs)
             current_slope == slope(s[1], s[2], s[3], s[4])
             lane == classify(current_slope)
             t == Append(trace, [seg |-> s, slope |-> current_slope, lane |-> lane])
         IN  CHOOSE result \in
                 { IF lane = "left"
                   THEN classify_all(Tail(segs), added, right, t)
                   ELSE classify_all(Tail(segs), left, added, t)
                   : added \in {add_line(IF lane = "left" THEN left ELSE right,
                                         s[1], s[2], s[3], s[4], current_slope)} } : TRUE

-----------------------------------------------------------------------------
(* Inputs *)

\* area_of_interest[0]: the four vertices of the mask polygon
AreaOfInterest == << <<0, 100>>, <<40, 50>>, <<60, 50>>, <<110, 100>> >>

SegLeftDiag   == <<0, 100, 10, 90>>       \* slope -1
SegLeftFlat   == <<0, 100, 4, 97>>        \* slope -3/4, length 5
SegLeftSteep  == <<0, 100, 6, 92>>        \* slope -4/3, length 10
SegRightDiag  == <<100, 100, 110, 110>>   \* slope 1
SegHorizontal == <<100, 100, 110, 100>>   \* slope 0
SegVertical   == <<100, 90, 100, 100>>    \* x1 = x2

\* the segment lists a frame may yield
Frames ==
    { <<>>,
      <<SegLeftDiag, SegRightDiag>>,
      <<SegLeftFlat, SegHorizontal>>,
      <<SegLeftFlat, SegLeftSteep, SegVertical>>,
      <<SegLeftFlat>>,
      <<SegHorizontal>> }

\* the (bottom_y, top_y) pairs get_mean_line is called with in SpecAPI
YBounds == { <<100, 50>>, <<100, 60>> }
\* the segments add_line is called with in SpecAPI
ApiSegments == { SegLeftFlat, SegHorizontal }

Lanes == {"left", "right"}

Tracker(lane) ==
    IF lane = "left" THEN global_left_lane_slope_holder ELSE global_right_lane_slope_holder

NoProcessor == NewLineProcessor("none")
NoCall == [op |-> "none", args |-> <<>>]
NoResult == [raised |-> "none", line |-> NoLine]

-----------------------------------------------------------------------------
(* The notebook after its first cell: both global trackers constructed *)

Init ==
    /\ global_left_lane_slope_holder = NewTracker
    /\ global_right_lane_slope_holder = NewTracker
    /\ left_line = NoLine
    /\ right_line = NoLine
    /\ raised = "none"
    /\ lines = <<>>
    /\ assigned = <<>>
    /\ called = {}
    /\ pushed = [left |-> <<>>, right |-> <<>>]
    /\ session = [no |-> 1, frames |-> 0, halted |-> FALSE, total |-> 0]
    /\ last_op = "init"
    /\ proc = NoProcessor
    /\ api = [prev |-> NoCall, last |-> NoCall, prev_result |-> NoResult,
              result |-> NoResult, calls |-> 0]

\* process_image -> hough_lines -> draw_lines on one frame's segments.  An
\* exception leaves draw_lines at the get_mean_line call that raised it; the
\* session (the image, or the video being written) ends with it.
draw_lines(lines_in, area_of_interest) ==
    /\ ~session.halted
    /\ session.total < MaxFrames
    /\ (session.total < VariedFrames \/ lines_in = lines)
    /\ \E c \in {classify_all(lines_in, NewLineProcessor("left"), NewLineProcessor("right"), <<>>)} :
       \E l \in {get_mean_line(c.left, global_left_lane_slope_holder,
                                area_of_interest[1][2], area_of_interest[2][2])} :
       \E r \in {IF l.raised # "none" THEN l
                 ELSE get_mean_line(c.right, global_right_lane_slope_holder,
                                    area_of_interest[4][2], area_of_interest[3][2])} :
           /\ global_left_lane_slope_holder' = l.tracker
           /\ left_line' = l.line
           /\ assigned' = c.trace
           /\ IF l.raised # "none"
              THEN /\ raised' = l.raised
                   /\ called' = {"left"}
                   /\ right_line' = NoLine
                   /\ pushed' = [pushed EXCEPT !.left = @ \o l.updates]
                   /\ UNCHANGED global_right_lane_slope_holder
              ELSE /\ raised' = r.raised
                   /\ called' = {"left", "right"}
                   /\ right_line' = r.line
                   /\ pushed' = [pushed EXCEPT !.left = @ \o l.updates,
                                               !.right = @ \o r.updates]
                   /\ global_right_lane_slope_holder' = r.tracker
    /\ lines' = lines_in
    /\ session' = [session EXCEPT !.frames = @ + 1, !.total = @ + 1,
                                  !.halted = (raised' # "none")]
    /\ last_op' = "draw_lines"
    /\ UNCHANGED <<proc, api>>

\* the next image or video is run through process_image: no code runs
\* between two sessions, the module-level trackers are the same objects
StartSession ==
    /\ session.no < MaxSessions
    /\ session.frames > 0
    /\ session.total <= VariedFrames
    /\ session' = [session EXCEPT !.no = @ + 1, !.frames = 0, !.halted = FALSE]
    /\ last_op' = "start_session"
    /\ UNCHANGED <<global_left_lane_slope_holder, global_right_lane_slope_holder,
                   left_line, right_line, raised, lines, assigned, called, pushed,
                   proc, api>>

Next ==
    \/ \E f \in Frames : draw_lines(f, AreaOfInterest)
    \/ StartSession

Spec == Init /\ [][Next]_vars

-----------------------------------------------------------------------------
(* The classes driven call by call: any LineProcessor on either global      *)
(* tracker, add_line and get_mean_line in any order                         *)

ApiStep(call, result) ==
    api' = [prev |-> api.last, last |-> call, prev_result |-> api.result,
            result |-> result, calls |-> api.calls + 1]

API_LineProcessor(lane) ==
    /\ api.calls < MaxCalls
    /\ proc' = NewLineProcessor(lane)
    /\ ApiStep([op |-> "LineProcessor", args |-> <<>>], NoResult)
    /\ last_op' = "LineProcessor"
    /\ UNCHANGED <<global_left_lane_slope_holder, global_right_lane_slope_holder,
                   left_line, right_line, raised, lines, assigned, called, pushed, session>>

API_add_line(seg) ==
    /\ api.calls < MaxCalls
    /\ proc.lane_data_tracker \in Lanes
    /\ proc' = add_line(proc, seg[1], seg[2], seg[3], seg[4],
                        slope(seg[1], seg[2], seg[3], seg[4]))
    /\ ApiStep([op |-> "add_line", args |-> seg], NoResult)
    /\ last_op' = "add_line"
    /\ UNCHANGED <<global_left_lane_slope_holder, global_right_lane_slope_holder,
                   left_line, right_line, raised, lines, assigned, called, pushed, session>>

API_get_mean_line(bottom_y, top_y) ==
    /\ api.calls < MaxCalls
    /\ proc.lane_data_tracker \in Lanes
    /\ \E r \in {get_mean_line(proc, Tracker(proc.lane_data_tracker), bottom_y, top_y)} :
           /\ IF proc.lane_data_tracker = "left"
              THEN /\ global_left_lane_slope_holder' = r.tracker
                   /\ UNCHANGED global_right_lane_slope_holder
              ELSE /\ global_right_lane_slope_holder' = r.tracker
                   /\ UNCHANGED global_left_lane_slope_holder
           /\ pushed' = [pushed EXCEPT ![proc.lane_data_tracker] = @ \o r.updates]
           /\ ApiStep([op |-> "get_mean_line", args |-> <<bottom_y, top_y>>],
                      [raised |-> r.raised, line |-> r.line])
    /\ last_op' = "get_mean_line"
    /\ UNCHANGED <<left_line, right_line, raised, lines, assigned, called, session, proc>>

NextAPI ==
    \/ \E lane \in Lanes : API_LineProcessor(lane)
    \/ \E seg \in ApiSegments : API_add_line(seg)
    \/ \E yb \in YBounds : API_get_mean_line(yb[1], yb[2])

SpecAPI == Init /\ [][NextAPI]_vars

-----------------------------------------------------------------------------
(* Vocabulary of the properties *)

Line(lane) == IF lane = "left" THEN left_line ELSE right_line
BottomY(lane) == IF lane = "left" THEN AreaOfInterest[1][2] ELSE AreaOfInterest[4][2]
TopY(lane) == IF lane = "left" THEN AreaOfInterest[2][2] ELSE AreaOfInterest[3][2]

\* the lane of a segment by its geometry: falling to the right of the image
\* (dy and dx of opposite sign) is left, everything else is right
GeometricLane(s) ==
    IF s[3] # s[1] /\ (s[4] - s[2]) * (s[3] - s[1]) < 0 THEN "left" ELSE "right"

LaneSegments(lane, segs) == Cardinality({i \in 1..Len(segs) : GeometricLane(segs[i]) = lane})

\* the window of a tracker as a sequence of (x, y, slope) triples
Window(t) == [i \in 1..Len(t.slopes) |-> <<t.mean_x_values[i], t.mean_y_values[i], t.slopes[i]>>]

Column(triples, k) == [i \in 1..Len(triples) |-> triples[i][k]]

LastN(seq, n) == SubSeq(seq, Len(seq) - n + 1, Len(seq))

Min(a, b) == IF a < b THEN a ELSE b

\* trunc(mx - (my - y) / ms), for ms # 0
XAt(m, y) == Trunc(RSub(m[1], RDiv(RSub(m[2], Int2Rat(y)), m[3])))

\* get_mean_line of this lane ran in the draw_lines call that led here
Ran(lane) == last_op = "draw_lines" /\ lane \in called

-----------------------------------------------------------------------------
(* C1: when a frame has no segment for a lane and the lane's window is     *)
(* empty, get_mean_line does not crash: the call returns and the session   *)
(* goes on with the next frame.                                            *)
C1_EmptyLaneEmptyHistoryDoesNotCrash ==
    \A lane \in Lanes :
        (Ran(lane) /\ LaneSegments(lane, lines) = 0 /\ pushed[lane] = <<>>)
            => (raised = "none" /\ ~session.halted)

(* C2: a frame without segments for a lane whose window is not empty       *)
(* pushes nothing: the lane's three sequences are unchanged, and the line  *)
(* returned is the one reconstructed from the mean of that window, not an  *)
(* error.                                                                  *)
C2_EmptyFrameReturnsPriorMean ==
    [][\A lane \in Lanes :
          (Ran(lane)' /\ LaneSegments(lane, lines') = 0 /\ Len(Tracker(lane).slopes) > 0)
              => /\ Tracker(lane)' = Tracker(lane)
                 /\ Line(lane)' # NoLine
                 /\ LET m == get_latest_lane_data(Tracker(lane)).value
                    IN  /\ ~RIsZero(m[3])
                        /\ Line(lane)' = <<XAt(m, BottomY(lane)), BottomY(lane),
                                           XAt(m, TopY(lane)), TopY(lane)>>]_vars

(* C3: between operations each lane's window holds at most 40 entries.     *)
C3_WindowAtMostCapacity ==
    \A lane \in Lanes :
        /\ Len(Tracker(lane).slopes) <= 40
        /\ Len(Tracker(lane).mean_x_values) <= 40
        /\ Len(Tracker(lane).mean_y_values) <= 40

C3_Witness ==
    \E lane \in Lanes : Len(pushed[lane]) > 40 /\ Len(Tracker(lane).slopes) = 40

(* C4: after K pushes the window is the last min(K, 40) pushed triples in  *)
(* insertion order, and get_latest_lane_data returns their unweighted      *)
(* arithmetic mean, component by component (n times the mean is the sum).  *)
C4_WindowIsLastPushedAndMean ==
    \A lane \in Lanes :
        LET K == Len(pushed[lane])
            n == Min(K, 40)
            recent == LastN(pushed[lane], n)
            got == get_latest_lane_data(Tracker(lane))
        IN  /\ Window(Tracker(lane)) = recent
            /\ K >= 1 =>
                 /\ got.raised = "none"
                 /\ \A k \in 1..3 :
                        RMul(got.value[k], Int2Rat(n)) = RSum(Column(recent, k))

C4_Witness ==
    \E lane \in Lanes :
        /\ Len(pushed[lane]) = 45
        /\ Len(Tracker(lane).slopes) = 40
        /\ pushed[lane][1] # pushed[lane][45]

(* C5: when a lane's smoothed slope is zero, reconstruction clamps or      *)
(* reports it: the frame does not abort with a division or overflow error  *)
(* and the session continues.                                              *)
C5_ZeroSlopeDoesNotAbort ==
    \A lane \in Lanes :
        (/\ Ran(lane)
         /\ Len(Tracker(lane).slopes) > 0
         /\ RIsZero(RSum(Tracker(lane).slopes)))
            => (raised = "none" /\ ~session.halted)

(* C6: every segment of a frame is added to exactly one accumulator and    *)
(* classification never raises: x1 = x2 gets slope exactly 1 and goes      *)
(* right, a falling segment goes left only, any other goes right only.     *)
C6_EverySegmentClassifiedOnce ==
    last_op = "draw_lines" =>
        /\ Len(assigned) = Len(lines)
        /\ \A i \in 1..Len(assigned) :
               LET s == lines[i]
                   a == assigned[i]
               IN  /\ a.seg = s
                   /\ a.lane \in Lanes
                   /\ s[1] = s[3] => (a.slope = <<1, 1>> /\ a.lane = "right")
                   /\ (s[1] # s[3] /\ (s[4] - s[2]) * (s[3] - s[1]) < 0) => a.lane = "left"
                   /\ (s[1] # s[3] /\ (s[4] - s[2]) * (s[3] - s[1]) >= 0) => a.lane = "right"

C6_Witness ==
    /\ last_op = "draw_lines"
    /\ \E i \in 1..Len(assigned) : lines[i][1] = lines[i][3] /\ assigned[i].lane = "right"
    /\ \E i \in 1..Len(assigned) : assigned[i].lane = "left"

(* C7: at the start of every processing session both lanes' windows are    *)
(* empty.                                                                  *)
C7_SessionStartsWithEmptyHistory ==
    session.frames = 0 =>
        /\ Len(global_left_lane_slope_holder.slopes) = 0
        /\ Len(global_right_lane_slope_holder.slopes) = 0

(* C8: two get_mean_line calls in succession on the same processor with    *)
(* the same bottom_y and top_y, nothing in between, return identical       *)
(* coordinates.                                                            *)
SuccessiveGets ==
    /\ api.prev.op = "get_mean_line"
    /\ api.last.op = "get_mean_line"
    /\ api.prev.args = api.last.args

C8_Original_SuccessiveGetsIdentical ==
    SuccessiveGets => api.result = api.prev_result

(* C8 as amended: on a processor that has accumulated no segment           *)
(* (total_length = 0), two successive get_mean_line calls with the same    *)
(* bounds have identical outcomes: the same coordinates or the same        *)
(* exception.                                                              *)
C8_EmptyProcessorGetsIdentical ==
    (SuccessiveGets /\ RIsZero(proc.total_length)) => api.result = api.prev_result

C8_Witness ==
    /\ SuccessiveGets
    /\ RIsZero(proc.total_length)
    /\ api.result.raised = "none"
    /\ api.result.line # NoLine
    /\ api.result = api.prev_result

(* C9: for a lane with a segment in the frame, get_mean_line pushes the    *)
(* frame's aggregate and returns (trunc(mx - (my - bottom_y)/ms),          *)
(* bottom_y, trunc(mx - (my - top_y)/ms), top_y) for the mean (mx, my, ms) *)
(* of the window including the push; in a fresh session the single left    *)
(* segment (0,100,10,90) with bottom 100 and top 50 gives aggregate slope  *)
(* -1, midpoint (5, 95) and the line (0, 100, 50, 50).                     *)
C9_SegmentsPushAndReconstruct ==
    \A lane \in Lanes :
        (Ran(lane) /\ LaneSegments(lane, lines) > 0) =>
            LET t == Tracker(lane)
                m == get_latest_lane_data(t).value
            IN  /\ Len(pushed[lane]) > 0
                /\ Window(t)[Len(t.slopes)] = pushed[lane][Len(pushed[lane])]
                /\ ~RIsZero(m[3])
                /\ Line(lane) = <<XAt(m, BottomY(lane)), BottomY(lane),
                                  XAt(m, TopY(lane)), TopY(lane)>>
                /\ (lane = "left" /\ lines = <<SegLeftDiag, SegRightDiag>>
                        /\ Len(pushed[lane]) = 1)
                     => /\ pushed[lane][1] = <<<<5, 1>>, <<95, 1>>, <<-1, 1>>>>
                        /\ Line(lane) = <<0, 100, 50, 50>>

(* C10: every slope stored in the left window is strictly negative and     *)
(* every slope in the right window is non-negative; so the left mean slope *)
(* is never zero, and the right mean slope is zero exactly when all its    *)
(* stored slopes are zero.                                                 *)
C10_SlopeSigns ==
    LET L == global_left_lane_slope_holder
        R == global_right_lane_slope_holder
    IN  /\ \A i \in 1..Len(L.slopes) : L.slopes[i][1] < 0
        /\ \A i \in 1..Len(R.slopes) : R.slopes[i][1] >= 0
        /\ Len(L.slopes) > 0 => ~RIsZero(mean(L.slopes).value)
        /\ Len(R.slopes) > 0 =>
               (RIsZero(mean(R.slopes).value) <=> \A i \in 1..Len(R.slopes) : R.slopes[i][1] = 0)

C10_Witness ==
    /\ Len(global_left_lane_slope_holder.slopes) > 0
    /\ \E i \in 1..Len(global_right_lane_slope_holder.slopes) :
           global_right_lane_slope_holder.slopes[i][1] = 0
    /\ \E i \in 1..Len(global_right_lane_slope_holder.slopes) :
           global_right_lane_slope_holder.slopes[i][1] > 0

====
